---- MODULE Spec2Model ----
(***************************************************************************)
(* Model of the NIST "trn" transcript reader of src/get_snr_k.py:          *)
(*   _AltTree, _trn_line_to_transcript and read_trn_iter.                  *)
(*                                                                         *)
(* A line is a sequence of characters, each a string.  A token is a        *)
(* sequence of characters (the empty sequence is Python's "").  A          *)
(* transcript entry                                                        *)
(* is a record: Tok(t) for a str, Alt(bs) for a list of branches (at the   *)
(* root Python wraps the list as the tuple (branches, -1, -1)).            *)
(***************************************************************************)
EXTENDS Integers, Sequences, FiniteSets, TLC

\* ------------------------------------------------------------------ bounds

\* longest line of the free-form family (all characters, parentheses included)
MaxLineLen == 4
\* longest transcript body of the family  body ++ "(u)"
MaxBodyLen == 5
\* most lines of an input file, most pool workers, largest chunk_size argument
\* longest body of the family of bodies with two brace groups or more
MaxNestLen == 7
MaxLines == 3
MaxProcesses == 2
MaxChunk == 2

\* ------------------------------------------------------------- characters

\* A character of a line is a string: an ASCII character is written as
\* itself (U+000B and U+001C..U+001F included), and a character outside ASCII
\* by the name of its code point, "U+" and four hexadecimal digits, so that
\* the module is read alike under every file encoding.

\* the ASCII characters str.strip() removes: space, tab, line feed, form
\* feed, carriage return, U+000B, U+001C, U+001D, U+001E, U+001F
AsciiWhitespace ==
    {" ", "\t", "\n", "\f", "\r", "", "", "", "", ""}

\* the characters outside ASCII that str.strip() removes
UnicodeWhitespace ==
    {"U+0085", "U+00A0", "U+1680", "U+2000", "U+2001", "U+2002", "U+2003",
     "U+2004", "U+2005", "U+2006", "U+2007", "U+2008", "U+2009", "U+200A",
     "U+2028", "U+2029", "U+202F", "U+205F", "U+3000"}

\* every character str.strip() removes (those str.isspace() accepts)
Whitespace == AsciiWhitespace \cup UnicodeWhitespace

LineAlphabet == {"a", " ", "\t", "(", ")", "{", "/", "}"}
BodyAlphabet == {"a", " ", "\t", "{", "/", "}"}
\* bodies of two different words, to tell the order of the entries
OrderAlphabet == {"a", "b", "{", "/", "}"}
\* lines as a file gives them, with line terminators
FileAlphabet == {"a", " ", "\n", "\r"}
\* short lines with characters outside ASCII: two that strip() removes and
\* one (e acute) that it keeps
WideAlphabet == {"a", " ", "\n", "U+00A0", "U+2028", "U+00E9"}

SeqsUpTo(A, n) == UNION {[1..k -> A] : k \in 0..n}

Last(s) == s[Len(s)]
ReplaceLast(s, x) == [s EXCEPT ![Len(s)] = x]

MaxOf(S) == CHOOSE x \in S : \A y \in S : y <= x
MinOf(S) == CHOOSE x \in S : \A y \in S : x <= y

\* str.strip(): drop leading and trailing whitespace
Strip(s) ==
    LET keep == {i \in 1..Len(s) : s[i] \notin Whitespace}
    IN  IF keep = {} THEN <<>> ELSE SubSeq(s, MinOf(keep), MaxOf(keep))

\* str.rindex(c), 1-based; 0 stands for the ValueError of a missing character
RIndex(s, c) ==
    LET at == {i \in 1..Len(s) : s[i] = c}
    IN  IF at = {} THEN 0 ELSE MaxOf(at)

\* ---------------------------------------------------------------- _AltTree

Tok(t) == [kind |-> "tok", tok |-> t, alt |-> <<>>]
Alt(bs) == [kind |-> "alt", tok |-> <<>>, alt |-> bs]

(* The frames of the source alias each other: a child's `tokens` list is the
   last branch of the last entry of its parent's `tokens`.  The model keeps
   the root frame's `tokens` (toks) and the number d of parent links between
   alt_tree and the root; alt_tree.tokens is then found by following the
   last entry's last branch d times. *)
RECURSIVE CurTokens(_, _)
CurTokens(toks, d) ==
    IF d = 0 THEN toks ELSE CurTokens(Last(Last(toks).alt), d - 1)

\* alt_tree.tokens.append(x) for the frame at depth d
RECURSIVE AppendTo(_, _, _)
AppendTo(toks, d, x) ==
    IF d = 0 THEN Append(toks, x)
    ELSE ReplaceLast(toks,
            Alt(ReplaceLast(Last(toks).alt,
                            AppendTo(Last(Last(toks).alt), d - 1, x))))

\* _AltTree(parent) for a parent at depth d: parent.tokens.append([self.tokens])
AltTreeInit(toks, d) == AppendTo(toks, d, Alt(<< <<>> >>))

\* a variant of new_branch that empties the current branch instead of
\* starting a further one
RECURSIVE new_branch_replace(_, _)
new_branch_replace(toks, d) ==
    IF d = 1 THEN ReplaceLast(toks, Alt(ReplaceLast(Last(toks).alt, <<>>)))
    ELSE ReplaceLast(toks,
            Alt(ReplaceLast(Last(toks).alt,
                            new_branch_replace(Last(Last(toks).alt), d - 1))))

\* new_branch for the frame at depth d >= 1:
\* self.tokens = []; self.parent.tokens[-1].append(self.tokens)
RECURSIVE new_branch(_, _)
new_branch(toks, d) ==
    IF d = 1 THEN ReplaceLast(toks, Alt(Append(Last(toks).alt, <<>>)))
    ELSE ReplaceLast(toks,
            Alt(ReplaceLast(Last(toks).alt,
                            new_branch(Last(Last(toks).alt), d - 1))))

\* ------------------------------------------------- _trn_line_to_transcript

\* the locals of the body scan after lines 90-93
ScanInit == [transcript |-> <<>>, token |-> <<>>, tokens |-> <<>>,
             depth |-> 0, found_alt |-> FALSE, err |-> FALSE]

\* `if token: (transcript | alt_tree.tokens).append(token); token = ""`
\* of the "{" and " " branches
FlushAny(s) ==
    IF s.token = <<>> THEN s
    ELSE IF s.depth = 0
         THEN [s EXCEPT !.transcript = Append(@, Tok(s.token)), !.token = <<>>]
         ELSE [s EXCEPT !.tokens = AppendTo(@, s.depth, Tok(s.token)),
                        !.token = <<>>]

\* `if token: alt_tree.tokens.append(token); token = ""` of "/" and "}"
FlushBranch(s) ==
    IF s.token = <<>> THEN s
    ELSE [s EXCEPT !.tokens = AppendTo(@, s.depth, Tok(s.token)),
                   !.token = <<>>]

\* a variant of OnOpen that leaves the pending token pending
OnOpen_noFlush(s) ==
    [s EXCEPT !.found_alt = TRUE,
              !.tokens = AltTreeInit(s.tokens, s.depth), !.depth = @ + 1]

\* c == "{"
OnOpen(s) ==
    LET f == FlushAny([s EXCEPT !.found_alt = TRUE])
    IN  [f EXCEPT !.tokens = AltTreeInit(f.tokens, f.depth), !.depth = @ + 1]

\* c == "/" and alt_tree.parent is not None
OnSlash(s) ==
    LET f == FlushBranch(s)
    IN  [f EXCEPT !.tokens = new_branch(f.tokens, f.depth)]

\* the test that raises 'Empty alternate found ("{ }")'
EmptyAlternate(f) == CurTokens(f.tokens, f.depth) = <<>>

\* c == "}" and alt_tree.parent is not None
OnClose(s) ==
    LET f == FlushBranch(s)
    IN  IF EmptyAlternate(f) THEN [f EXCEPT !.err = TRUE]
        ELSE IF f.depth = 1
             THEN [f EXCEPT !.transcript = Append(@, f.tokens[1]),
                            !.tokens = <<>>, !.depth = 0]
             ELSE [f EXCEPT !.depth = @ - 1]

\* c == " "
OnSpace(s) == FlushAny(s)

\* else: token += c
OnOther(s, c) == [s EXCEPT !.token = Append(@, c)]

\* a variant of Branch in which a "}" outside every scope ends the token
Branch_strayCloseDelimits(s, c) ==
    IF c = "{" THEN "open"
    ELSE IF c = "/" /\ s.depth > 0 THEN "slash"
    ELSE IF c = "}" /\ s.depth > 0 THEN "close"
    ELSE IF c = " " \/ c = "}" THEN "space"
    ELSE "other"

\* which branch of the if/elif chain a character takes
Branch(s, c) ==
    IF c = "{" THEN "open"
    ELSE IF c = "/" /\ s.depth > 0 THEN "slash"
    ELSE IF c = "}" /\ s.depth > 0 THEN "close"
    ELSE IF c = " " THEN "space"
    ELSE "other"

ScanStep(s, c) ==
    CASE Branch(s, c) = "open"  -> OnOpen(s)
      [] Branch(s, c) = "slash" -> OnSlash(s)
      [] Branch(s, c) = "close" -> OnClose(s)
      [] Branch(s, c) = "space" -> OnSpace(s)
      [] OTHER                  -> OnOther(s, c)

\* the while loop; it is left at the first raise
RECURSIVE Scan(_, _)
Scan(s, body) ==
    IF body = <<>> \/ s.err THEN s ELSE Scan(ScanStep(s, Head(body)), Tail(body))

\* a variant of FinalTranscript that keeps the pending token of an open scope
FinalTranscript_anyDepth(s) ==
    IF s.token # <<>> THEN Append(s.transcript, Tok(s.token)) ELSE s.transcript

\* `if token and alt_tree.parent is None: transcript.append(token)`
FinalTranscript(s) ==
    IF s.token # <<>> /\ s.depth = 0
    THEN Append(s.transcript, Tok(s.token)) ELSE s.transcript

\* a variant of FormatError that does not compare the two positions
FormatError_noOrder(l) == RIndex(l, "(") = 0 \/ RIndex(l, ")") = 0

\* lines 81-87: the utterance id cannot be found
FormatError(l) ==
    RIndex(l, "(") = 0 \/ RIndex(l, ")") = 0 \/ RIndex(l, "(") > RIndex(l, ")")

\* a variant of UttId that stops at the first ")" after the last "("
UttId_firstClose(l) ==
    SubSeq(l, RIndex(l, "(") + 1,
           MinOf({i \in 1..Len(l) : i > RIndex(l, "(") /\ l[i] = ")"}) - 1)

\* line 88
UttId(l) == SubSeq(l, RIndex(l, "(") + 1, RIndex(l, ")") - 1)
\* line 89
Body(l) == Strip(SubSeq(l, 1, RIndex(l, "(") - 1))

None == [kind |-> "none", utt_id |-> <<>>, transcript |-> <<>>,
         error |-> "", warned |-> FALSE]
Raise(e) == [None EXCEPT !.kind = "error", !.error = e]
Record(u, t, w) == [kind |-> "record", utt_id |-> u, transcript |-> t,
                    error |-> "", warned |-> w]

\* the whole call: what it returns or raises, and whether it warned
trn_line_to_transcript(x_line, x_warn) ==
    LET l == Strip(x_line)
    IN  IF l = <<>> THEN None
        ELSE IF FormatError(l) THEN Raise("format")
        ELSE LET s == Scan(ScanInit, Body(l))
             IN  IF s.err THEN Raise("empty")
                 ELSE Record(UttId(l), FinalTranscript(s), s.found_alt /\ x_warn)

\* ------------------------------------------------------------------- state

VARIABLES
    x,           \* the argument (line, warn)
    pc,          \* where the call stands: start, find, scan, done
    line,        \* the local `line`
    utt_id,      \* the local `utt_id`
    loc,         \* the scan's locals: transcript, token, alt_tree, found_alt
    result,      \* what the call returned or raised
    \* read_trn_iter
    trn,         \* the lines of the input file
    warn,        \* the arguments warn, processes, chunk_size
    processes,
    chunk_size,
    is_path,     \* isinstance(trn, str)
    ipc,         \* where the generator stands: start, seq, pool, exit (an
                 \* exception is leaving the `with Pool` block), hung,
                 \* finished, raised
    pos,         \* how many lines have been read from trn
    taskq,       \* the pool's task queue: chunks of lines not yet taken
    length,      \* the number of chunks, once the input is exhausted (-1 before)
    worker,      \* the chunk each pool worker holds
    cache,       \* the chunk results that have come back
    want,        \* the chunk the consumer waits for
    buf,         \* the items of the current chunk not yet handed out
    yielded,     \* the records yielded so far
    raised,      \* the error raised to the consumer ("" for none)
    exc          \* the exception on its way out of the generator ("" for none)

lineVars == <<x, pc, line, utt_id, loc, result>>
iterVars == <<trn, warn, processes, chunk_size, is_path, ipc, pos, taskq,
              length, worker, cache, want, buf, yielded, raised, exc>>
vars == <<lineVars, iterVars>>

\* the generator before it is called
NoTask == [i |-> 0, lines |-> <<>>]
IterIdle ==
    /\ trn = <<>> /\ warn = FALSE /\ processes = 0 /\ chunk_size = 1
    /\ is_path = FALSE /\ ipc = "idle" /\ pos = 0 /\ taskq = <<>>
    /\ length = -1 /\ worker = <<>> /\ cache = {} /\ want = 1
    /\ buf = <<>> /\ yielded = <<>> /\ raised = "" /\ exc = ""

\* how many of the first j characters of t are c
CountOf(t, c, j) == Cardinality({i \in 1..j : t[i] = c})

\* the braces of text t match: no "}" without an open "{", no "{" left open
Balanced(t) ==
    /\ CountOf(t, "{", Len(t)) = CountOf(t, "}", Len(t))
    /\ \A j \in 1..Len(t) : CountOf(t, "}", j) <= CountOf(t, "{", j)

\* lines whose body holds two brace groups or more, nested or side by side
NestedLines ==
    {b \o <<"(", "u", ")">> :
        b \in {t \in SeqsUpTo(OrderAlphabet, MaxNestLen) :
                  CountOf(t, "{", Len(t)) >= 2 /\ Balanced(t)}}

\* the two largest families, read with warn set (the default of
\* read_trn_iter); warn decides the warning only
LongLines ==
    {b \o <<"(", "u", ")">> : b \in SeqsUpTo(BodyAlphabet, MaxBodyLen)}
    \cup NestedLines

\* the lines read with warn set and with warn unset
Lines ==
    SeqsUpTo(LineAlphabet, MaxLineLen)
    \cup {b \o <<"(", "u", ")">> : b \in SeqsUpTo(OrderAlphabet, MaxBodyLen)}
    \cup {b \o <<"(", "u", ")", "\n">> : b \in SeqsUpTo(FileAlphabet, MaxBodyLen)}
    \cup SeqsUpTo(FileAlphabet, MaxLineLen)
    \cup SeqsUpTo(WideAlphabet, MaxLineLen)
    \cup {b \o <<"(", "u", ")">> : b \in SeqsUpTo(WideAlphabet, MaxLineLen - 1)}

Init ==
    /\ x \in [line : Lines, warn : BOOLEAN]
             \cup [line : LongLines, warn : {TRUE}]
    /\ pc = "start"
    /\ line = <<>>
    /\ utt_id = <<>>
    /\ loc = ScanInit
    /\ result = None
    /\ IterIdle

\* lines 77-80
StripLine ==
    /\ pc = "start"
    /\ line' = Strip(x.line)
    /\ pc' = IF line' = <<>> THEN "done" ELSE "find"
    /\ UNCHANGED <<x, utt_id, loc, result, iterVars>>

\* lines 81-93
FindUttId ==
    /\ pc = "find"
    /\ IF FormatError(line)
       THEN /\ pc' = "done"
            /\ result' = Raise("format")
            /\ UNCHANGED <<line, utt_id, loc>>
       ELSE /\ pc' = "scan"
            /\ utt_id' = UttId(line)
            /\ line' = Body(line)
            /\ loc' = ScanInit
            /\ UNCHANGED result
    /\ UNCHANGED <<x, iterVars>>

\* one iteration of the while loop, for a character that takes branch b
Iterate(b) ==
    /\ pc = "scan"
    /\ line # <<>>
    /\ Branch(loc, Head(line)) = b
    /\ loc' = ScanStep(loc, Head(line))
    /\ line' = Tail(line)
    /\ IF loc'.err
       THEN pc' = "done" /\ result' = Raise("empty")
       ELSE UNCHANGED <<pc, result>>
    /\ UNCHANGED <<x, utt_id, iterVars>>

ScanOpen == Iterate("open")
ScanSlash == Iterate("slash")
ScanClose == Iterate("close")
ScanSpace == Iterate("space")
ScanOther == Iterate("other")

\* lines 131-141
Finish ==
    /\ pc = "scan"
    /\ line = <<>>
    /\ pc' = "done"
    /\ result' = Record(utt_id, FinalTranscript(loc), loc.found_alt /\ x.warn)
    /\ UNCHANGED <<x, line, utt_id, loc, iterVars>>

Next ==
    \/ StripLine
    \/ FindUttId
    \/ ScanOpen
    \/ ScanSlash
    \/ ScanClose
    \/ ScanSpace
    \/ ScanOther
    \/ Finish

Spec == Init /\ [][Next]_vars

\* ----------------------------------------------------------- read_trn_iter

\* the default of the chunk_size parameter
DefaultChunkSize == 1000

\* sample lines of an input file, each with its line terminator as iterating
\* over the file gives it
GoodA == <<"a", " ", "(", "1", ")", "\n">>
GoodAlt == <<"{", "a", "/", "b", "}", "(", "1", ")", "\n">>
BlankLine == <<" ", "\t", "\n">>
NoUttId == <<"a", "b", "\n">>
EmptyAlt == <<"{", "}", "(", "3", ")", "\n">>
FileLines == {GoodA, GoodAlt, BlankLine, NoUttId, EmptyAlt}

\* the value a record is yielded as: (utt_id, transcript)
Pair(r) == <<r.utt_id, r.transcript>>

\* Pool.imap cuts the input into chunks of n lines (the last may be shorter):
\* the number of the chunk that starts after p lines, and where it ends
ChunkIndex(p, n) == (p \div n) + 1
ChunkEnd(file, p, n) == IF p + n < Len(file) THEN p + n ELSE Len(file)

\* a variant of ChunkResult that loses the result of the chunk's last line
ChunkResult_dropLast(i, lines, w) ==
    LET rs == [k \in 1..Len(lines) |-> trn_line_to_transcript(lines[k], w)]
        errs == {k \in 1..Len(lines) : rs[k].kind = "error"}
    IN  IF errs = {}
        THEN [i |-> i, ok |-> TRUE, items |-> SubSeq(rs, 1, Len(lines) - 1),
              error |-> ""]
        ELSE [i |-> i, ok |-> FALSE, items |-> <<>>,
              error |-> rs[MinOf(errs)].error]

\* a worker's run of one chunk: the list of the results of its lines, or the
\* first exception raised among them
ChunkResult(i, lines, w) ==
    LET rs == [k \in 1..Len(lines) |-> trn_line_to_transcript(lines[k], w)]
        errs == {k \in 1..Len(lines) : rs[k].kind = "error"}
    IN  IF errs = {} THEN [i |-> i, ok |-> TRUE, items |-> rs, error |-> ""]
        ELSE [i |-> i, ok |-> FALSE, items |-> <<>>,
              error |-> rs[MinOf(errs)].error]

\* a variant of YieldOf without the test for None
YieldOf_unfiltered(r) == <<Pair(r)>>

\* `if x is not None: yield x`
YieldOf(r) == IF r.kind = "record" THEN <<Pair(r)>> ELSE <<>>

InitIter ==
    /\ trn \in SeqsUpTo(FileLines, MaxLines)
    /\ warn = TRUE   \* the parameter's default; it only decides the warnings
    /\ processes \in 0..MaxProcesses
    /\ chunk_size \in 1..MaxChunk
    /\ is_path \in BOOLEAN
    /\ ipc = "start"
    /\ pos = 0
    /\ taskq = <<>>
    /\ length = -1
    /\ worker = [w \in 1..processes |-> NoTask]
    /\ cache = {}
    /\ want = 1
    /\ buf = <<>>
    /\ yielded = <<>>
    /\ raised = ""
    /\ exc = ""
    /\ x = [line |-> <<>>, warn |-> FALSE]
    /\ pc = "idle"
    /\ line = <<>>
    /\ utt_id = <<>>
    /\ loc = ScanInit
    /\ result = None

\* lines 180-182: a path is opened and read by a nested call, which is not
\* handed chunk_size
OpenPath ==
    /\ ipc = "start"
    /\ is_path
    /\ is_path' = FALSE
    /\ chunk_size' = DefaultChunkSize
    /\ UNCHANGED <<trn, warn, processes, ipc, pos, taskq, length, worker,
                   cache, want, buf, yielded, raised, exc, lineVars>>

\* lines 183 and 188-189: the mode is chosen
Enter ==
    /\ ipc = "start"
    /\ ~is_path
    /\ ipc' = IF processes = 0 THEN "seq" ELSE "pool"
    /\ UNCHANGED <<trn, warn, processes, chunk_size, is_path, pos, taskq,
                   length, worker, cache, want, buf, yielded, raised, exc, lineVars>>

\* lines 184-187: one turn of the sequential loop
SeqLine ==
    /\ ipc = "seq"
    /\ pos < Len(trn)
    /\ pos' = pos + 1
    /\ LET r == trn_line_to_transcript(trn[pos + 1], warn)
       IN  IF r.kind = "error"
           THEN ipc' = "raised" /\ raised' = r.error /\ UNCHANGED yielded
           ELSE yielded' = yielded \o YieldOf(r) /\ UNCHANGED <<ipc, raised>>
    /\ UNCHANGED <<trn, warn, processes, chunk_size, is_path, taskq, length,
                   worker, cache, want, buf, exc, lineVars>>

\* line 184: the file is exhausted
SeqEnd ==
    /\ ipc = "seq"
    /\ pos = Len(trn)
    /\ ipc' = "finished"
    /\ UNCHANGED <<trn, warn, processes, chunk_size, is_path, pos, taskq,
                   length, worker, cache, want, buf, yielded, raised, exc, lineVars>>

\* the pool's threads and workers run until the pool is terminated
PoolAlive == ipc \in {"pool", "exit"}

\* lines 190-192, Pool.imap: the pool's task thread reads the next
\* chunk_size lines and queues them as one task
Dispatch ==
    /\ PoolAlive
    /\ length = -1
    /\ pos < Len(trn)
    /\ pos' = ChunkEnd(trn, pos, chunk_size)
    /\ taskq' = Append(taskq, [i |-> ChunkIndex(pos, chunk_size),
                               lines |-> SubSeq(trn, pos + 1, pos')])
    /\ UNCHANGED <<trn, warn, processes, chunk_size, is_path, ipc, length,
                   worker, cache, want, buf, yielded, raised, exc, lineVars>>

\* Pool.imap: the input is exhausted, the number of chunks is known
DispatchEnd ==
    /\ PoolAlive
    /\ length = -1
    /\ pos = Len(trn)
    /\ length' = ChunkIndex(pos + chunk_size - 1, chunk_size) - 1
    /\ UNCHANGED <<trn, warn, processes, chunk_size, is_path, ipc, pos, taskq,
                   worker, cache, want, buf, yielded, raised, exc, lineVars>>

\* a pool worker takes the oldest queued chunk
Take(w) ==
    /\ PoolAlive
    /\ worker[w] = NoTask
    /\ taskq # <<>>
    /\ worker' = [worker EXCEPT ![w] = Head(taskq)]
    /\ taskq' = Tail(taskq)
    /\ UNCHANGED <<trn, warn, processes, chunk_size, is_path, ipc, pos, length,
                   cache, want, buf, yielded, raised, exc, lineVars>>

\* a pool worker maps _trn_line_to_transcript over its chunk and sends the
\* outcome back
Complete(w) ==
    /\ PoolAlive
    /\ worker[w] # NoTask
    /\ cache' = cache \cup {ChunkResult(worker[w].i, worker[w].lines, warn)}
    /\ worker' = [worker EXCEPT ![w] = NoTask]
    /\ UNCHANGED <<trn, warn, processes, chunk_size, is_path, ipc, pos, taskq,
                   length, want, buf, yielded, raised, exc, lineVars>>

\* line 193: the generator receives the outcome of the chunk it waits for,
\* in input order; a failed chunk raises its exception inside the generator,
\* from where it leaves the `with Pool` block
Fetch ==
    /\ ipc = "pool"
    /\ buf = <<>>
    /\ \E r \in cache :
          /\ r.i = want
          /\ cache' = cache \ {r}
          /\ IF r.ok
             THEN buf' = r.items /\ want' = want + 1 /\ UNCHANGED <<ipc, exc>>
             ELSE ipc' = "exit" /\ exc' = r.error /\ UNCHANGED <<buf, want>>
    /\ UNCHANGED <<trn, warn, processes, chunk_size, is_path, pos, taskq,
                   length, worker, yielded, raised, lineVars>>

\* lines 193-195: the next item of the current chunk
PoolItem ==
    /\ ipc = "pool"
    /\ buf # <<>>
    /\ yielded' = yielded \o YieldOf(Head(buf))
    /\ buf' = Tail(buf)
    /\ UNCHANGED <<trn, warn, processes, chunk_size, is_path, ipc, pos, taskq,
                   length, worker, cache, want, raised, exc, lineVars>>

\* lines 196-197: every chunk has been handed out
PoolEnd ==
    /\ ipc = "pool"
    /\ buf = <<>>
    /\ length >= 0
    /\ want > length
    /\ ipc' = "finished"
    /\ UNCHANGED <<trn, warn, processes, chunk_size, is_path, pos, taskq,
                   length, worker, cache, want, buf, yielded, raised, exc, lineVars>>

\* line 189, an exception leaves the `with` block: Pool.__exit__ terminates
\* the pool (queued tasks are dropped, workers killed, the pool's threads
\* joined; the outcomes not handed out go with the pool), then the consumer
\* gets the exception
Terminate ==
    /\ ipc = "exit"
    /\ ipc' = "raised"
    /\ raised' = exc
    /\ taskq' = <<>>
    /\ worker' = [w \in DOMAIN worker |-> NoTask]
    /\ cache' = {}
    /\ UNCHANGED <<trn, warn, processes, chunk_size, is_path, pos, length,
                   want, buf, yielded, exc, lineVars>>

\* line 189, the same exit when a worker is killed while it sends a chunk's
\* outcome: it dies holding the result queue's lock, the pool's task thread
\* blocks on that lock, and Pool.__exit__ waits for that thread for ever;
\* the exception never reaches the consumer
Hang ==
    /\ ipc = "exit"
    /\ \E w \in DOMAIN worker : worker[w] # NoTask
    /\ ipc' = "hung"
    /\ taskq' = <<>>
    /\ worker' = [w \in DOMAIN worker |-> NoTask]
    /\ cache' = {}
    /\ UNCHANGED <<trn, warn, processes, chunk_size, is_path, pos, length,
                   want, buf, yielded, raised, exc, lineVars>>

NextIter ==
    \/ OpenPath
    \/ Enter
    \/ SeqLine
    \/ SeqEnd
    \/ Dispatch
    \/ DispatchEnd
    \/ \E w \in DOMAIN worker : Take(w)
    \/ \E w \in DOMAIN worker : Complete(w)
    \/ Fetch
    \/ PoolItem
    \/ PoolEnd
    \/ Terminate
    \/ Hang

SpecIter == InitIter /\ [][NextIter]_vars

\* ------------------------------------------------- helpers of the claims

\* the stripped line, and its parts
L0 == Strip(x.line)
Chars(s) == {s[i] : i \in 1..Len(s)}
Returns == pc = "done" /\ result.kind = "record"
RaisesErr(e) == pc = "done" /\ result.kind = "error" /\ result.error = e

\* every token of a branch (a sequence of entries), at any depth
RECURSIVE AllToks(_)
AllToks(b) ==
    UNION {IF b[i].kind = "tok" THEN {b[i].tok}
           ELSE UNION {AllToks(b[i].alt[j]) : j \in 1..Len(b[i].alt)}
           : i \in 1..Len(b)}

\* no alternate of the branch, at any depth, has a branch without entries
RECURSIVE NoEmptyBranch(_)
NoEmptyBranch(b) ==
    \A i \in 1..Len(b) :
        b[i].kind = "alt" =>
            \A j \in 1..Len(b[i].alt) :
                b[i].alt[j] # <<>> /\ NoEmptyBranch(b[i].alt[j])

\* the number of open scopes after the first i characters of body b
DepthAfter(b, i) == Scan(ScanInit, SubSeq(b, 1, i)).depth

\* what the character scan alone makes of text b
ScanOf(b) == FinalTranscript(Scan(ScanInit, b))

\* the transcript of a line that holds text b and an empty utterance id
TranscriptOf(b) == trn_line_to_transcript(b \o <<"(", ")">>, FALSE).transcript

\* the maximal runs of body b that hold no " ", in order
RunStarts(b) == {i \in 1..Len(b) : b[i] # " " /\ (i = 1 \/ b[i - 1] = " ")}
RunEnd(b, i) == MinOf({j \in i..Len(b) : j = Len(b) \/ b[j + 1] = " "})
SpaceRuns(b) ==
    LET S == RunStarts(b)
        nth(k) == CHOOSE i \in S : Cardinality({j \in S : j < i}) = k - 1
    IN  [k \in 1..Cardinality(S) |-> Tok(SubSeq(b, nth(k), RunEnd(b, nth(k))))]

\* the step-by-step call and the function trn_line_to_transcript agree
Returned == pc = "done" => result = trn_line_to_transcript(x.line, x.warn)

\* ------------------------------------------------------------------ claims

\* C1: a returned record's utterance id is the text strictly between the
\* last "(" and the last ")" of the stripped line, verbatim; the transcript
\* is that of the text before the last "(" alone; and cutting the line
\* right after its last ")" gives the same record.
C1_UttIdVerbatim ==
    Returns =>
        LET l == L0
        IN  \E i, j \in 1..Len(l) :
              /\ i < j /\ l[i] = "(" /\ l[j] = ")"
              /\ \A k \in (i + 1)..Len(l) : l[k] # "("
              /\ \A k \in (j + 1)..Len(l) : l[k] # ")"
              /\ result.utt_id = SubSeq(l, i + 1, j - 1)
              /\ result.transcript = TranscriptOf(SubSeq(l, 1, i - 1))
              /\ result = trn_line_to_transcript(SubSeq(l, 1, j), x.warn)

\* C1 witness: a record whose id holds an earlier ")" and whose line goes on
\* after the last ")"
C1_Witness ==
    /\ Returns
    /\ ")" \in Chars(result.utt_id)
    /\ RIndex(L0, ")") < Len(L0)

\* C2: a non-blank line raises the format error exactly when it has no "(",
\* no ")", or its last "(" after its last ")"; such a line never gives a
\* record or the empty-alternate error.
C2_FormatErrorIff ==
    pc = "done" =>
        LET l == L0
        IN  l # <<>> =>
              (RaisesErr("format") <=>
                  \/ "(" \notin Chars(l)
                  \/ ")" \notin Chars(l)
                  \/ \E i \in 1..Len(l) :
                        l[i] = "(" /\ \A j \in 1..Len(l) : l[j] = ")" => j < i)

\* C2 witness: a line with an empty alternate whose last "(" follows its
\* last ")" raised the format error
C2_Witness ==
    /\ RaisesErr("format")
    /\ Len(L0) >= 2 /\ L0[1] = "{" /\ L0[2] = "}"
    /\ RIndex(L0, "(") > RIndex(L0, ")") /\ RIndex(L0, ")") > 0

\* the scan is about to read a "}" that closes an open scope
Closing == pc = "scan" /\ line # <<>> /\ Branch(loc, Head(line)) = "close"
\* the branches of the innermost open alternate of scan state s
OpenAlt(s) == Last(CurTokens(s.tokens, s.depth - 1)).alt
AllBranchesEmpty(bs) == \A i \in 1..Len(bs) : bs[i] = <<>>

\* C3: closing a scope raises the empty-alternate error exactly when no
\* branch of the alternate being closed holds a token.
C3_EmptyIffNoTokenAnywhere ==
    Closing =>
        (ScanStep(loc, "}").err <=> AllBranchesEmpty(OpenAlt(FlushBranch(loc))))

\* C4: no returned transcript holds an alternate, at any depth, with an
\* empty branch.
C4_NoEmptyBranch == Returns => NoEmptyBranch(result.transcript)

\* C5: no token of a returned transcript, at any depth, is empty or holds a
\* whitespace character.
C5_TokensHaveNoWhitespace ==
    Returns =>
        \A t \in AllToks(result.transcript) :
            t # <<>> /\ Chars(t) \cap Whitespace = {}

\* the scan is about to read a "(" or ")", or a "/" or "}" outside every scope
StrayNext ==
    /\ pc = "scan"
    /\ line # <<>>
    /\ \/ Head(line) \in {"(", ")"}
       \/ Head(line) \in {"/", "}"} /\ loc.depth = 0

\* C6: a "/" or "}" read outside every scope, and any "(" or ")" of the body,
\* is appended to the pending token and nothing else changes; and a line
\* with an utterance id whose body holds no "{" returns a record whose
\* transcript is the sequence of maximal space-free runs of the body.
C6_NoBraceBodyIsSpaceRuns ==
    /\ StrayNext =>
          ScanStep(loc, Head(line)) = [loc EXCEPT !.token = Append(@, Head(line))]
    /\ (pc = "done" /\ L0 # <<>> /\ ~FormatError(L0) /\ "{" \notin Chars(Body(L0)))
          => /\ Returns
             /\ result.transcript = SpaceRuns(Body(L0))

\* C6 witness: a brace-free body gave a "/" token and a token holding "}"
C6_Witness ==
    /\ Returns
    /\ "{" \notin Chars(Body(L0))
    /\ <<"/">> \in AllToks(result.transcript)
    /\ \E t \in AllToks(result.transcript) : "}" \in Chars(t) /\ Len(t) > 1

\* the position of the outermost "{" of body b that is never closed
OutermostUnclosed(b) ==
    CHOOSE i \in 1..Len(b) :
        /\ b[i] = "{"
        /\ DepthAfter(b, i - 1) = 0
        /\ \A j \in i..Len(b) : DepthAfter(b, j) > 0

\* C7: a scan that ends with a scope still open returns a record, and its
\* transcript is what the scan makes of the body text before the outermost
\* unclosed "{".
C7_UnterminatedDiscarded ==
    (pc = "done" /\ loc.depth > 0 /\ ~loc.err) =>
        /\ Returns
        /\ LET b == Body(L0)
           IN  result.transcript = ScanOf(SubSeq(b, 1, OutermostUnclosed(b) - 1))

\* C7 witness: a scan ended inside an open scope that held a closed nested
\* alternate, after a token completed before the scope
C7_Witness ==
    /\ Returns
    /\ loc.depth = 1
    /\ result.transcript # <<>>
    /\ \E e \in {loc.tokens[1].alt[1][i] : i \in 1..Len(loc.tokens[1].alt[1])} :
          e.kind = "alt"

\* some "}" of body b closes an open scope
ClosedSome(b) == \E i \in 1..Len(b) : b[i] = "}" /\ DepthAfter(b, i - 1) > 0

\* C8: a successful parse warns exactly when the warn flag is set and some
\* alternate scope was closed during the scan.
C8_WarnIffClosed ==
    Returns => (result.warned <=> (x.warn /\ ClosedSome(Body(L0))))

\* what each sample line parses to, and the parse of the k-th line of the
\* input file
Parsed == [l \in FileLines |-> trn_line_to_transcript(l, TRUE)]
ParseOf(k) == Parsed[trn[k]]
Failing == {k \in 1..Len(trn) : ParseOf(k).kind = "error"}
\* the first line whose parse fails (Len(trn) + 1 when none does)
FirstFail == IF Failing = {} THEN Len(trn) + 1 ELSE MinOf(Failing)

\* one record per non-blank line among the first n lines, in input order
RECURSIVE RecordsUpTo(_)
RecordsUpTo(n) ==
    IF n = 0 THEN <<>>
    ELSE IF ParseOf(n).kind = "record"
         THEN Append(RecordsUpTo(n - 1), <<ParseOf(n).utt_id, ParseOf(n).transcript>>)
         ELSE RecordsUpTo(n - 1)

\* a sequence as a multiset
BagOfSeq(s) ==
    [e \in {s[i] : i \in 1..Len(s)} |-> Cardinality({i \in 1..Len(s) : s[i] = e})]

\* C9: for a file without malformed line, the records yielded with
\* N >= 1 pool workers, under every interleaving of the workers, form the
\* multiset sequential reading yields: one record per non-blank line.
C9_PoolYieldsSameMultiset ==
    (ipc \in {"finished", "raised"} /\ processes >= 1 /\ Failing = {}) =>
        /\ ipc = "finished"
        /\ BagOfSeq(yielded) = BagOfSeq(RecordsUpTo(Len(trn)))

\* C9 witness: two workers finished a file cut into several chunks that
\* holds a blank line and the same record twice
C9_Witness ==
    /\ ipc = "finished"
    /\ processes >= 2
    /\ length >= 2
    /\ \E k \in 1..Len(trn) : ParseOf(k).kind = "none"
    /\ \E e \in DOMAIN BagOfSeq(yielded) : BagOfSeq(yielded)[e] >= 2

\* the generator has ended (nothing is yielded after that) having yielded
\* the records of the first n lines, in input order, and raised the error
\* of the first failing line, if any
EndsWith(n) ==
    /\ yielded = RecordsUpTo(n)
    /\ IF Failing = {}
       THEN ipc = "finished" /\ raised = ""
       ELSE ipc = "raised" /\ raised = ParseOf(FirstFail).error

\* C10 as stated: in every mode the generator yields, in input order, the
\* records of the non-blank lines before the first failing line, then
\* raises that line's error; without failing line, one record per
\* non-blank line.
C10_YieldsAllBeforeFirstError ==
    ipc \in {"finished", "raised"} => EndsWith(FirstFail - 1)

\* the lines whose records are kept: in pool mode, those of the chunks
\* before the chunk that holds the first failing line
KeptLines ==
    IF processes = 0 \/ Failing = {} THEN FirstFail - 1
    ELSE ((FirstFail - 1) \div chunk_size) * chunk_size

\* C10 amended: when the iteration has ended, sequential reading has
\* yielded, in input order, the records of the non-blank lines before the
\* first failing line, and pool reading those of the chunks before the chunk
\* that holds the first failing line; with a failing line the iteration has
\* ended by raising that line's error, and no record of a later line was
\* yielded; without one it has yielded one record per non-blank line.
C10_AbortsOnFirstError ==
    ipc \in {"finished", "raised"} => EndsWith(KeptLines)

\* C10 witness: pool workers were reading; the generator yielded a record,
\* then raised the error of a line that a well-formed line follows
C10_Witness ==
    /\ ipc = "raised"
    /\ processes >= 1
    /\ yielded # <<>>
    /\ FirstFail < Len(trn)
    /\ ParseOf(FirstFail + 1).kind = "record"

\* ------------------------------------------------ the shape of alternates

\* every alternate of a branch (a sequence of entries), at any depth, has at
\* least n branches
RECURSIVE AllAltsHave(_, _)
AllAltsHave(b, n) ==
    \A i \in 1..Len(b) :
        b[i].kind = "alt" =>
            /\ Len(b[i].alt) >= n
            /\ \A j \in 1..Len(b[i].alt) : AllAltsHave(b[i].alt[j], n)

RECURSIVE SumSeq(_)
SumSeq(q) == IF q = <<>> THEN 0 ELSE Head(q) + SumSeq(Tail(q))

\* the number of alternates of a branch, at any depth, and the number of
\* branches they have together
RECURSIVE AltCount(_)
AltCount(b) ==
    SumSeq([i \in 1..Len(b) |->
              IF b[i].kind = "alt"
              THEN 1 + SumSeq([j \in 1..Len(b[i].alt) |-> AltCount(b[i].alt[j])])
              ELSE 0])
RECURSIVE BranchCount(_)
BranchCount(b) ==
    SumSeq([i \in 1..Len(b) |->
              IF b[i].kind = "alt"
              THEN Len(b[i].alt)
                   + SumSeq([j \in 1..Len(b[i].alt) |-> BranchCount(b[i].alt[j])])
              ELSE 0])

\* the number of "/" of body b that are read while a scope is open
SlashesInScope(b) ==
    Cardinality({i \in 1..Len(b) : b[i] = "/" /\ DepthAfter(b, i - 1) > 0})

\* C11 as stated: every alternate of a returned transcript, at any depth,
\* has two or more branches.
C11_TwoOrMoreBranches == Returns => AllAltsHave(result.transcript, 2)

\* C11 amended: every alternate of a returned transcript, at any depth, has
\* one or more branches, one more than the "/" read in its scope: when every
\* scope was closed, the alternates have together as many branches as there
\* are alternates and "/" read inside scopes, so a group without "/" is an
\* alternate of one branch.
C11_OneOrMoreBranches ==
    Returns =>
        /\ AllAltsHave(result.transcript, 1)
        /\ loc.depth = 0 =>
              BranchCount(result.transcript)
                  = AltCount(result.transcript) + SlashesInScope(Body(L0))

\* C11 witness: a returned transcript holds an alternate of one branch
\* whose branch holds an alternate of one branch
C11_Witness ==
    /\ Returns
    /\ \E i \in 1..Len(result.transcript) :
          LET e == result.transcript[i]
          IN  /\ e.kind = "alt"
              /\ Len(e.alt) = 1
              /\ \E k \in 1..Len(e.alt[1]) :
                    e.alt[1][k].kind = "alt" /\ Len(e.alt[1][k].alt) = 1

\* ------------------------------------- the transcript read off the text

(* The transcript as the text of a body states it, by descent into the brace
   groups rather than by the scan: a "{" is matched with the "}" that
   balances it, the text between them is cut at the "/" outside nested
   groups, and each piece is read in the same way. *)

\* the k-th smallest element of a set of numbers
Nth(S, k) == CHOOSE i \in S : Cardinality({j \in S : j < i}) = k - 1

\* t starts with "{": the position of the "}" that balances it
MatchClose(t) ==
    MinOf({j \in 2..Len(t) : CountOf(t, "{", j) = CountOf(t, "}", j)})

\* t starts a word: the position of the word's last character
WordEnd(t) ==
    MaxOf({k \in 1..Len(t) : \A i \in 1..k : t[i] \notin {" ", "{"}})

\* the "/" of the inside t of a group that lie outside its nested groups
Cuts(t) ==
    {p \in 1..Len(t) : t[p] = "/" /\ CountOf(t, "{", p) = CountOf(t, "}", p)}

RECURSIVE RefEntries(_)
\* the branches of a group with inside t: 1 + the number of cuts
RefBranches(t) ==
    LET marks == {0, Len(t) + 1} \cup Cuts(t)
    IN  [k \in 1..(Cardinality(marks) - 1) |->
            RefEntries(SubSeq(t, Nth(marks, k) + 1, Nth(marks, k + 1) - 1))]

\* the entries of text t, left to right: words and groups
RefEntries(t) ==
    IF t = <<>> THEN <<>>
    ELSE IF Head(t) = " " THEN RefEntries(Tail(t))
    ELSE IF Head(t) = "{"
         THEN <<Alt(RefBranches(SubSeq(t, 2, MatchClose(t) - 1)))>>
              \o RefEntries(SubSeq(t, MatchClose(t) + 1, Len(t)))
         ELSE <<Tok(SubSeq(t, 1, WordEnd(t)))>>
              \o RefEntries(SubSeq(t, WordEnd(t) + 1, Len(t)))

\* C12: for a body that raises no error and leaves no scope open, the
\* transcript keeps the order and nesting of the text: one alternate per
\* group opened outside every scope, between the words around it; 1 + k
\* branches for a group with k "/" of its own; each branch with its words and
\* nested groups left to right; and "{" and "}" end the pending word.
C12_TranscriptFollowsText ==
    (Returns /\ loc.depth = 0) => result.transcript = RefEntries(Body(L0))

\* C12 witness: "{a/{b}}" gave one alternate of two branches, the word "a"
\* and, inside the second branch only, the alternate of the one branch "b"
C12_Witness ==
    /\ Returns
    /\ loc.depth = 0
    /\ Body(L0) = <<"{", "a", "/", "{", "b", "}", "}">>
    /\ result.transcript
         = <<Alt(<< <<Tok(<<"a">>)>>, <<Alt(<< <<Tok(<<"b">>)>> >>)>> >>)>>

====
